---- MODULE Spec2Model ----
(***************************************************************************)
(* Approval routing engine of the expense manager: the persisted tables    *)
(* (ApprovalFlow, ApprovalStep, ApprovalRule, Expense, Approval), the      *)
(* request handlers of apps/api/routes/approvals.ts and                    *)
(* apps/api/routes/expense.ts, and the response of the last request.       *)
(***************************************************************************)
EXTENDS Integers, Sequences, FiniteSets, TLC

VARIABLES flows, steps, rules, expenses, approvals, clock, response, txs,
          stepSeq   \* ApprovalStep ids handed out so far: an id is never reused

dbvars == <<flows, steps, rules, stepSeq, expenses, approvals, clock>>
vars == <<flows, steps, rules, stepSeq, expenses, approvals, clock, response, txs>>

(***************************************************************************)
(* Bounds of the model.                                                    *)
(***************************************************************************)
MaxFlows == 1
MaxSteps == 3
MaxExpenses == 1
MaxTx == 2
\* Decisions (writes of decided_at) the model follows: one per step of the
\* longest flow.
MaxDecisions == MaxSteps

(***************************************************************************)
(* The User table.  Users are created by the admin routes and by           *)
(* registration; the decision handlers only read them, so the model keeps  *)
(* a fixed population: company A with an employee, a manager and two       *)
(* admins, company B with a single admin.                                  *)
(***************************************************************************)
UserIds == {"e1", "m1", "a1", "a2", "b1"}

Role == [e1 |-> "EMPLOYEE", m1 |-> "MANAGER", a1 |-> "ADMIN", a2 |-> "ADMIN",
         b1 |-> "ADMIN"]

Company == [e1 |-> "A", m1 |-> "A", a1 |-> "A", a2 |-> "A", b1 |-> "B"]

\* A nullable foreign key (current_step_id, step_id) holds a step id or NULL.
NullStep == 0

\* A nullable timestamp (decided_at) holds a clock value or NULL.
NullDate == 0

\* A nullable text (comments) holds a text or NULL.
NullText == ""

(***************************************************************************)
(* Request inputs.                                                         *)
(***************************************************************************)
\* approver_type / approver_ref pairs a step of a request may carry; "ghost"
\* is an id no User row has.
ApproverChoices == {<<"USER", "m1">>, <<"ROLE", "MANAGER">>,
                    <<"ROLE", "ADMIN">>, <<"USER", "ghost">>}

StepInput(i, c) ==
    [step_order |-> i, approver_type |-> c[1], approver_ref |-> c[2]]

\* The steps arrays of the flow requests: n steps ordered 1..n, the first one
\* for the managers.
StepLists ==
    UNION {{[i \in 1..n |-> StepInput(i, f[i])] :
              f \in {g \in [1..n -> ApproverChoices] : g[1] = <<"ROLE", "MANAGER">>}} :
           n \in 1..MaxSteps}

PctRule == [rule_type |-> "PERCENTAGE", threshold |-> 100,
            approver_id |-> "", skip_remaining |-> FALSE]

SpecRule(u, skip) == [rule_type |-> "SPECIFIC_APPROVER", threshold |-> 0,
                      approver_id |-> u, skip_remaining |-> skip]

HybridRule == [rule_type |-> "HYBRID", threshold |-> 0,
               approver_id |-> "", skip_remaining |-> FALSE]

\* The rules arrays of the flow requests.
RuleLists == {<<>>, <<PctRule>>, <<SpecRule("a1", TRUE)>>,
              <<SpecRule("a1", FALSE)>>, <<HybridRule>>}

\* Amounts of the submit requests (0 stands for a missing or zero amount).
Amounts == {0, 50, 150}

\* Users who submit expenses.
Submitters == {"e1", "b1"}

\* Users who call the flow routes.
FlowCallers == {"a1", "m1"}

\* comments of an approve / reject request.
CommentInput == "reviewed"

(***************************************************************************)
(* Reading the tables.                                                     *)
(***************************************************************************)
ExpenseIds == DOMAIN expenses

StepIds == {s.id : s \in steps}

StepById(id) == CHOOSE s \in steps : s.id = id

StepsOfFlow(f) == {s \in steps : s.flow_id = f}

RulesOfFlow(f) == {r \in rules : r.flow_id = f}

\* include: { approvals: { where: { status: "PENDING" } } }
PendingApprovals(e) ==
    {i \in DOMAIN approvals :
        approvals[i].expense_id = e /\ approvals[i].status = "PENDING"}

\* managerOrAdminOnly
ManagerOrAdminOnly(u) == Role[u] \in {"MANAGER", "ADMIN"}

\* adminOnly
AdminOnly(u) == Role[u] = "ADMIN"

\* The predicate of expense.approvals.find(...) in approve and reject.
MatchesApproval(i, e, u) ==
    /\ approvals[i].step_id = expenses[e].current_step_id
    /\ \/ approvals[i].approver_id = u
       \/ /\ approvals[i].step_id # NullStep
          /\ StepById(approvals[i].step_id).approver_type = "ROLE"
          /\ StepById(approvals[i].step_id).approver_ref = Role[u]

\* The approvals find(...) may return: the query has no orderBy, so any
\* pending approval that satisfies the predicate can come first.
MatchingApprovals(e, u) ==
    {i \in PendingApprovals(e) : MatchesApproval(i, e, u)}

\* Variant of NextSteps without the sort: any step of greater order.
NextStepsAnyLater(f, order) ==
    {s \in StepsOfFlow(f) : s.step_order > order}

\* Variant of NextSteps with gte in place of gt.
NextStepsAtOrAfter(f, order) ==
    {s \in StepsOfFlow(f) :
        /\ s.step_order >= order
        /\ \A t \in StepsOfFlow(f) : t.step_order >= order => s.step_order <= t.step_order}

\* allSteps.find(step => step.step_order > currentStepOrder) over the steps
\* sorted by step_order, and findFirst({step_order: {gt}}, orderBy asc): a
\* step of the flow with the smallest greater order.
NextSteps(f, order) ==
    {s \in StepsOfFlow(f) :
        /\ s.step_order > order
        /\ \A t \in StepsOfFlow(f) : t.step_order > order => s.step_order <= t.step_order}

\* tx.user.findFirst({ where: { role, company_id } }): any such user.
RoleUsers(role, company) ==
    {u \in UserIds : Role[u] = role /\ Company[u] = company}

\* Variant of RuleFires in which a HYBRID rule auto-approves.
RuleFiresHybridApproves(r, amount, u) ==
    \/ r.rule_type = "PERCENTAGE" /\ amount < r.threshold
    \/ r.rule_type = "SPECIFIC_APPROVER" /\ r.approver_id = u /\ r.skip_remaining
    \/ r.rule_type = "HYBRID"

\* Variant of RuleFires that skips PERCENTAGE rules.
RuleFiresSpecificOnly(r, amount, u) ==
    r.rule_type = "SPECIFIC_APPROVER" /\ r.approver_id = u /\ r.skip_remaining

\* Variant of RuleFires that does not compare approver_id with the decider.
RuleFiresAnyApprover(r, amount, u) ==
    \/ r.rule_type = "PERCENTAGE" /\ amount < r.threshold
    \/ r.rule_type = "SPECIFIC_APPROVER" /\ r.skip_remaining

\* One iteration of the rule loop of approve: does the rule auto-approve?
RuleFires(r, amount, u) ==
    \/ r.rule_type = "PERCENTAGE" /\ amount < r.threshold
    \/ r.rule_type = "SPECIFIC_APPROVER" /\ r.approver_id = u /\ r.skip_remaining

NewApproval(e, s, u, c) ==
    [expense_id |-> e, step_id |-> s, approver_id |-> u, status |-> "PENDING",
     comments |-> c, decided_at |-> NullDate]

\* The users the approval created for a step can be assigned to: the
\* referenced user of a USER step, any user of the company with the role of a
\* ROLE step.
StepApprovers(s, company) ==
    IF s.approver_type = "USER" THEN {s.approver_ref}
    ELSE RoleUsers(s.approver_ref, company)

\* Variant of ConnectFails in which connect accepts any id.
ConnectNeverFails(s) == FALSE

\* approver: { connect: { id } } fails the transaction when no such user exists.
ConnectFails(s) == s.approver_type = "USER" /\ s.approver_ref \notin UserIds

(***************************************************************************)
(* Responses.                                                              *)
(***************************************************************************)
Reply(op, u, e, s, r) ==
    response' = [op |-> op, user |-> u, expense |-> e, stepId |-> s, result |-> r,
                 rows |-> {}, flow |-> 0]

Fail(op, u, e, s, r) == Reply(op, u, e, s, r) /\ UNCHANGED dbvars

Init ==
    /\ flows = <<>>
    /\ steps = {}
    /\ stepSeq = 0
    /\ rules = {}
    /\ expenses = <<>>
    /\ approvals = <<>>
    /\ clock = 0
    /\ response = [op |-> "none", user |-> "", expense |-> 0, stepId |-> NullStep,
                   result |-> "", rows |-> {}, flow |-> 0]
    /\ txs = <<>>

(***************************************************************************)
(* POST /api/approval-flows                                                *)
(***************************************************************************)
StepRows(f, base, stepsIn) ==
    {[id |-> base + i, flow_id |-> f, step_order |-> stepsIn[i].step_order,
      approver_type |-> stepsIn[i].approver_type,
      approver_ref |-> stepsIn[i].approver_ref] : i \in DOMAIN stepsIn}

RuleRows(f, rulesIn) ==
    {[idx |-> i, flow_id |-> f, rule_type |-> rulesIn[i].rule_type,
      threshold |-> rulesIn[i].threshold, approver_id |-> rulesIn[i].approver_id,
      skip_remaining |-> rulesIn[i].skip_remaining] : i \in DOMAIN rulesIn}

CreateFlow(u, stepsIn, rulesIn) ==
    /\ Len(flows) < MaxFlows
    /\ UNCHANGED <<expenses, approvals, clock, txs>>
    /\ IF ~AdminOnly(u)
       THEN /\ Reply("CreateFlow", u, 0, NullStep, "Admin access required")
            /\ UNCHANGED <<flows, steps, rules, stepSeq>>
       ELSE IF Len(stepsIn) = 0
       THEN /\ Reply("CreateFlow", u, 0, NullStep, "Missing required fields: name and steps")
            /\ UNCHANGED <<flows, steps, rules, stepSeq>>
       ELSE IF \E i \in DOMAIN stepsIn :
                  \/ stepsIn[i].step_order = 0
                  \/ stepsIn[i].approver_ref = ""
       THEN /\ Reply("CreateFlow", u, 0, NullStep,
                     "Each step must have step_order, approver_type, and approver_ref")
            /\ UNCHANGED <<flows, steps, rules, stepSeq>>
       ELSE IF \E i \in DOMAIN stepsIn : stepsIn[i].approver_type \notin {"USER", "ROLE"}
       THEN /\ Reply("CreateFlow", u, 0, NullStep, "approver_type must be USER or ROLE")
            /\ UNCHANGED <<flows, steps, rules, stepSeq>>
       ELSE /\ flows' = Append(flows, [company_id |-> Company[u], is_active |-> TRUE])
            /\ steps' = steps \cup StepRows(Len(flows) + 1, stepSeq, stepsIn)
            /\ stepSeq' = stepSeq + Len(stepsIn)
            /\ rules' = rules \cup RuleRows(Len(flows) + 1, rulesIn)
            /\ Reply("CreateFlow", u, 0, NullStep, "Approval flow created successfully")

(***************************************************************************)
(* POST /api/expenses                                                      *)
(***************************************************************************)
Submit(u, amount) ==
    /\ Len(expenses) < MaxExpenses
    /\ UNCHANGED <<flows, steps, rules, stepSeq, approvals, clock, txs>>
    /\ IF amount = 0
       THEN /\ Reply("Submit", u, 0, NullStep, "Missing required fields")
            /\ UNCHANGED expenses
       ELSE /\ expenses' = Append(expenses,
                                  [amount |-> amount, employee_id |-> u,
                                   status |-> "PENDING", current_step_id |-> NullStep])
            /\ Reply("Submit", u, Len(expenses) + 1, NullStep,
                     "Expense submitted successfully")

(***************************************************************************)
(* prisma.$transaction(async (tx) => ...): the callback's writes are kept  *)
(* when it returns and rolled back when it throws.                         *)
(***************************************************************************)
TxWrites(threw, before, after) == IF threw THEN before ELSE after

\* Variant of DecideApproval that keeps the approver the approval was created for.
DecideApprovalKeepsApprover(aps, i, u, st) ==
    [aps EXCEPT ![i] = [@ EXCEPT !.status = st, !.comments = CommentInput,
                                 !.decided_at = clock + 1]]

\* tx.approval.update of approve / reject on the matched approval.
DecideApproval(aps, i, u, st) ==
    [aps EXCEPT ![i] = [@ EXCEPT !.status = st, !.comments = CommentInput,
                                 !.decided_at = clock + 1, !.approver_id = u]]

\* Variant of Materialized that creates no approval for a ROLE step.
MaterializedUserOnly(e, s) ==
    IF s.approver_type = "USER"
    THEN {<<NewApproval(e, s.id, s.approver_ref, NullText)>>}
    ELSE {<<>>}

\* The approval rows created for the step the expense moves to: one for the
\* referenced user, or one for a user with the role when there is one.
Materialized(e, s) ==
    LET who == StepApprovers(s, Company[expenses[e].employee_id])
    IN  IF who = {} THEN {<<>>}
        ELSE {<<NewApproval(e, s.id, a, NullText)>> : a \in who}

\* The rule loop of approve over the rules of the flow.
AutoApproves(f, amount, u) == \E r \in RulesOfFlow(f) : RuleFires(r, amount, u)

ApprovedMessage(st) ==
    IF st = "APPROVED" THEN "Expense fully approved" ELSE "Step approved successfully"

(***************************************************************************)
(* POST /api/approvals/:expenseId/approve                                  *)
(***************************************************************************)
\* Variant of ApproveRefusal that looks for the approval before the status.
ApproveRefusalAuthFirst(u, e) ==
    IF ~ManagerOrAdminOnly(u) THEN "Manager or Admin access required"
    ELSE IF e \notin ExpenseIds THEN "Expense not found"
    ELSE IF MatchingApprovals(e, u) = {} THEN "You are not authorized to approve this step"
    ELSE IF expenses[e].status # "PENDING" THEN "Expense is not pending approval"
    ELSE NullText

\* The error the guards of approve answer with, NullText when they all pass.
ApproveRefusal(u, e) ==
    IF ~ManagerOrAdminOnly(u) THEN "Manager or Admin access required"
    ELSE IF e \notin ExpenseIds THEN "Expense not found"
    ELSE IF expenses[e].status # "PENDING" THEN "Expense is not pending approval"
    ELSE IF MatchingApprovals(e, u) = {} THEN "You are not authorized to approve this step"
    ELSE NullText

\* The writes of the approve transaction; exp is the expense row its
\* findUnique read, i the approval its find matched.
ApproveWrite(u, e, i, exp) ==
    clock < MaxDecisions /\
    LET decided == DecideApproval(approvals, i, u, "APPROVED")
    IN  IF exp.current_step_id = NullStep
        THEN \* expense.current_step!.flow_id throws on a null current_step
             Fail("Approve", u, e, NullStep, "TypeError")
        ELSE LET cur == StepById(exp.current_step_id)
                 nexts == NextSteps(cur.flow_id, cur.step_order)
                 auto == AutoApproves(cur.flow_id, exp.amount, u)
             IN  IF nexts = {}
                 THEN /\ approvals' = decided
                      /\ expenses' = [expenses EXCEPT ![e].status = "APPROVED",
                                                      ![e].current_step_id = NullStep]
                      /\ clock' = clock + 1
                      /\ Reply("Approve", u, e, NullStep, ApprovedMessage("APPROVED"))
                      /\ UNCHANGED <<flows, steps, rules, stepSeq>>
                 ELSE \E n \in nexts :
                        IF ConnectFails(n)
                        THEN Fail("Approve", u, e, NullStep, "Record to connect not found")
                        ELSE \E created \in Materialized(e, n) :
                               LET st == IF auto THEN "APPROVED" ELSE exp.status
                                   cs == IF auto THEN NullStep ELSE n.id
                               IN  /\ approvals' = decided \o created
                                   /\ expenses' = [expenses EXCEPT ![e].status = st,
                                                                   ![e].current_step_id = cs]
                                   /\ clock' = clock + 1
                                   /\ Reply("Approve", u, e, NullStep, ApprovedMessage(st))
                                   /\ UNCHANGED <<flows, steps, rules, stepSeq>>

Approve(u, e) ==
    /\ UNCHANGED txs
    /\ IF ApproveRefusal(u, e) # NullText
       THEN Fail("Approve", u, e, NullStep, ApproveRefusal(u, e))
       ELSE \E i \in MatchingApprovals(e, u) : ApproveWrite(u, e, i, expenses[e])

(***************************************************************************)
(* POST /api/approvals/:expenseId/reject                                   *)
(***************************************************************************)
RejectRefusal(u, e) ==
    IF ~ManagerOrAdminOnly(u) THEN "Manager or Admin access required"
    ELSE IF e \notin ExpenseIds THEN "Expense not found"
    ELSE IF expenses[e].status # "PENDING" THEN "Expense is not pending approval"
    ELSE IF MatchingApprovals(e, u) = {} THEN "You are not authorized to reject this step"
    ELSE NullText

\* Variant of RejectWrite that also deactivates every flow.
RejectWriteClosesFlows(u, e, i) ==
    /\ clock < MaxDecisions
    /\ approvals' = DecideApproval(approvals, i, u, "REJECTED")
    /\ expenses' = [expenses EXCEPT ![e].status = "REJECTED",
                                    ![e].current_step_id = NullStep]
    /\ clock' = clock + 1
    /\ Reply("Reject", u, e, NullStep, "Expense rejected")
    /\ flows' = [f \in DOMAIN flows |-> [flows[f] EXCEPT !.is_active = FALSE]]
    /\ UNCHANGED <<steps, rules, stepSeq>>

\* Variant of RejectWrite that leaves current_step_id as it is.
RejectWriteKeepsStep(u, e, i) ==
    /\ clock < MaxDecisions
    /\ approvals' = DecideApproval(approvals, i, u, "REJECTED")
    /\ expenses' = [expenses EXCEPT ![e].status = "REJECTED"]
    /\ clock' = clock + 1
    /\ Reply("Reject", u, e, NullStep, "Expense rejected")
    /\ UNCHANGED <<flows, steps, rules, stepSeq>>

\* The writes of the reject transaction on the approval i its find matched.
RejectWrite(u, e, i) ==
    /\ clock < MaxDecisions
    /\ approvals' = DecideApproval(approvals, i, u, "REJECTED")
    /\ expenses' = [expenses EXCEPT ![e].status = "REJECTED",
                                    ![e].current_step_id = NullStep]
    /\ clock' = clock + 1
    /\ Reply("Reject", u, e, NullStep, "Expense rejected")
    /\ UNCHANGED <<flows, steps, rules, stepSeq>>

Reject(u, e) ==
    /\ UNCHANGED txs
    /\ IF RejectRefusal(u, e) # NullText
       THEN Fail("Reject", u, e, NullStep, RejectRefusal(u, e))
       ELSE \E i \in MatchingApprovals(e, u) : RejectWrite(u, e, i)

(***************************************************************************)
(* POST /api/approvals/:expenseId/escalate                                 *)
(***************************************************************************)
\* tx.user.findFirst({ role: "ADMIN", company_id, id: { not: userId } })
FallbackAdmins(e, u) ==
    {a \in RoleUsers("ADMIN", Company[expenses[e].employee_id]) : a # u}

\* The fallback approval created at the same step when there is no next step.
FallbackCreated(e, s, u) ==
    IF FallbackAdmins(e, u) = {} THEN {<<>>}
    ELSE {<<NewApproval(e, s, a, "Escalated by admin")>> : a \in FallbackAdmins(e, u)}

\* Variant of EscalateApprovals without the status filter.
EscalateApprovalsAnyStatus(aps, e, target) ==
    [i \in DOMAIN aps |->
        IF aps[i].expense_id = e /\ aps[i].step_id = target
        THEN [aps[i] EXCEPT !.status = "REJECTED", !.comments = "Escalated to next step",
                            !.decided_at = clock + 1]
        ELSE aps[i]]

\* tx.approval.updateMany on the pending approvals of the expense at the target step.
EscalateApprovals(aps, e, target) ==
    [i \in DOMAIN aps |->
        IF aps[i].expense_id = e /\ aps[i].step_id = target /\ aps[i].status = "PENDING"
        THEN [aps[i] EXCEPT !.status = "REJECTED", !.comments = "Escalated to next step",
                            !.decided_at = clock + 1]
        ELSE aps[i]]

\* const targetStepId = stepId || expense.current_step_id
TargetStep(exp, stepId) ==
    IF stepId # NullStep THEN stepId ELSE exp.current_step_id

\* Variant of EscalateRefusal without the status guard.
EscalateRefusalNoStatusGuard(u, e, stepId) ==
    IF ~AdminOnly(u) THEN "Admin access required"
    ELSE IF e \notin ExpenseIds THEN "Expense not found"
    ELSE IF TargetStep(expenses[e], stepId) = NullStep THEN "Argument id must not be null"
    ELSE IF TargetStep(expenses[e], stepId) \notin StepIds THEN "Step not found"
    ELSE NullText

\* The error the guards of escalate answer with, NullText when they all pass.
\* findUnique({ where: { id: null } }) is refused by the client.
EscalateRefusal(u, e, stepId) ==
    IF ~AdminOnly(u) THEN "Admin access required"
    ELSE IF e \notin ExpenseIds THEN "Expense not found"
    ELSE IF expenses[e].status # "PENDING" THEN "Expense is not pending approval"
    ELSE IF TargetStep(expenses[e], stepId) = NullStep THEN "Argument id must not be null"
    ELSE IF TargetStep(expenses[e], stepId) \notin StepIds THEN "Step not found"
    ELSE NullText

\* The writes of the escalate transaction for the target step it read.
EscalateWrite(u, e, stepId, target) ==
    clock < MaxDecisions /\
    LET cur == StepById(target)
        nexts == NextSteps(cur.flow_id, cur.step_order)
    IN  IF nexts = {}
        THEN \* the fallback approval is created, then the callback throws
             \E created \in FallbackCreated(e, target, u) :
                /\ approvals' = TxWrites(TRUE, approvals, approvals \o created)
                /\ Reply("Escalate", u, e, stepId, "No next step available for escalation")
                /\ UNCHANGED <<flows, steps, rules, stepSeq, expenses, clock>>
        ELSE \E n \in nexts :
               IF ConnectFails(n)
               THEN Fail("Escalate", u, e, stepId, "Record to connect not found")
               ELSE \E created \in Materialized(e, n) :
                      /\ approvals' = EscalateApprovals(approvals, e, target) \o created
                      /\ expenses' = [expenses EXCEPT ![e].current_step_id = n.id]
                      /\ clock' = clock + 1
                      /\ Reply("Escalate", u, e, stepId, "Step escalated to next approver")
                      /\ UNCHANGED <<flows, steps, rules, stepSeq>>

Escalate(u, e, stepId) ==
    /\ UNCHANGED txs
    /\ IF EscalateRefusal(u, e, stepId) # NullText
       THEN Fail("Escalate", u, e, stepId, EscalateRefusal(u, e, stepId))
       ELSE EscalateWrite(u, e, stepId, TargetStep(expenses[e], stepId))

(***************************************************************************)
(* The requests of the model.                                              *)
(***************************************************************************)
\* Expense ids of the decision requests: every id a row can have.
ExpenseArgs == 1..MaxExpenses

\* stepId of an escalate request: absent, or an id a step row can have.
StepArgs == 0..(MaxFlows * MaxSteps)

DoCreateFlow == \E u \in FlowCallers, sl \in StepLists, rl \in RuleLists : CreateFlow(u, sl, rl)

DoSubmit == \E u \in Submitters, a \in Amounts : Submit(u, a)

DoApprove == \E u \in UserIds, e \in ExpenseArgs : Approve(u, e)

DoReject == \E u \in UserIds, e \in ExpenseArgs : Reject(u, e)

DoEscalate == \E u \in UserIds, e \in ExpenseArgs, s \in StepArgs : Escalate(u, e, s)

Next ==
    \/ DoCreateFlow
    \/ DoSubmit
    \/ DoApprove
    \/ DoReject
    \/ DoEscalate

Spec == Init /\ [][Next]_vars

(***************************************************************************)
(* Concurrent decisions.  The handlers open their transaction without an   *)
(* isolation level, so it runs at the database's READ COMMITTED: what a    *)
(* transaction read at its start can be changed by another transaction     *)
(* that commits before it writes.  TxBegin is the reads and guards of an   *)
(* approve or reject request, TxCommit its writes, computed from what it   *)
(* read.                                                                   *)
(***************************************************************************)
Refusal(op, u, e) ==
    IF op = "Approve" THEN ApproveRefusal(u, e) ELSE RejectRefusal(u, e)

TxBegin(op, u, e) ==
    /\ Len(txs) < MaxTx
    /\ IF Refusal(op, u, e) # NullText
       THEN Fail(op, u, e, NullStep, Refusal(op, u, e)) /\ UNCHANGED txs
       ELSE /\ \E i \in MatchingApprovals(e, u) :
                 txs' = Append(txs, [op |-> op, user |-> u, expense |-> e,
                                     approval |-> i, seen |-> expenses[e],
                                     pending |-> PendingApprovals(e)])
            /\ UNCHANGED <<dbvars, response>>

RemoveAt(q, k) == [j \in 1..(Len(q) - 1) |-> IF j < k THEN q[j] ELSE q[j + 1]]

TxCommit(k) ==
    LET t == txs[k]
    IN  /\ txs' = RemoveAt(txs, k)
        /\ IF t.op = "Approve"
           THEN ApproveWrite(t.user, t.expense, t.approval, t.seen)
           ELSE RejectWrite(t.user, t.expense, t.approval)

\* The concurrent decisions are followed on an expense of e1 in a flow of
\* company A without rules whose steps are ROLE steps; the escalations that
\* move the expense are taken while no decision is in flight.
ConcStepLists ==
    {sl \in StepLists : \A i \in DOMAIN sl : sl[i].approver_type = "ROLE"}

ConcCallers == {"m1", "a1", "a2"}

ConcCreateFlow == \E sl \in ConcStepLists : CreateFlow("a1", sl, <<>>)

ConcSubmit == Submit("e1", 150)

ConcEscalate == \E s \in StepArgs : Len(txs) = 0 /\ Escalate("a1", 1, s)

DoBegin ==
    \E op \in {"Approve", "Reject"}, u \in ConcCallers, e \in ExpenseArgs : TxBegin(op, u, e)

DoCommit == \E k \in DOMAIN txs : TxCommit(k)

NextConc ==
    \/ ConcCreateFlow
    \/ ConcSubmit
    \/ ConcEscalate
    \/ DoBegin
    \/ DoCommit

SpecConc == Init /\ [][NextConc]_vars

(***************************************************************************)
(* Requests at the edge of the validation: a negative amount, flows with a  *)
(* step whose approver is an employee, by id or through the role, and a    *)
(* manager who submits an expense in a company whose flow has a step for   *)
(* the managers, and a company that has no manager at all.                 *)
(***************************************************************************)
EdgeApproverChoices == {<<"USER", "e1">>, <<"ROLE", "EMPLOYEE">>, <<"ROLE", "MANAGER">>}

\* A first step for the managers, then at most one more step.
EdgeStepLists ==
    {<<StepInput(1, <<"ROLE", "MANAGER">>)>>}
    \cup {<<StepInput(1, <<"ROLE", "MANAGER">>), StepInput(2, c)>> : c \in EdgeApproverChoices}

EdgeAmounts == {-5, 0, 50}

EdgeAdmins == {"a1", "b1"}

EdgeCreateFlow == \E u \in EdgeAdmins, sl \in EdgeStepLists : CreateFlow(u, sl, <<>>)

EdgeSubmitters == {"e1", "m1", "b1"}

EdgeSubmit == \E u \in EdgeSubmitters, a \in EdgeAmounts : Submit(u, a)

NextEdge ==
    \/ EdgeCreateFlow
    \/ EdgeSubmit
    \/ DoApprove
    \/ DoReject
    \/ DoEscalate

SpecEdge == Init /\ [][NextEdge]_vars

(***************************************************************************)
(* Maintenance of a flow while expenses are in progress, and the pending   *)
(* list: PUT and DELETE /api/approval-flows/:id, GET /api/approvals/pending.*)
(***************************************************************************)
\* Step rows the model follows: each flow can be rewritten once in full.
MaxStepRows == 2 * MaxFlows * MaxSteps

\* The response of a request on flow f, with the rows it returns.
FlowReply(op, u, f, r, rows) ==
    response' = [op |-> op, user |-> u, expense |-> 0, stepId |-> NullStep,
                 result |-> r, rows |-> rows, flow |-> f]

\* Variant of FlowRefusal without the company check.
FlowRefusalAnyCompany(u, f) ==
    IF ~AdminOnly(u) THEN "Admin access required"
    ELSE IF f \notin DOMAIN flows THEN "Approval flow not found"
    ELSE NullText

\* The guards GET, PUT and DELETE of one flow share: router.use(adminOnly),
\* then the flow lookup and the company check.
FlowRefusal(u, f) ==
    IF ~AdminOnly(u) THEN "Admin access required"
    ELSE IF f \notin DOMAIN flows THEN "Approval flow not found"
    ELSE IF flows[f].company_id # Company[u] THEN "Access denied"
    ELSE NullText

\* The validation loop over the steps of a request.
StepsRefusal(stepsIn) ==
    IF \E i \in DOMAIN stepsIn : stepsIn[i].step_order = 0 \/ stepsIn[i].approver_ref = ""
    THEN "Each step must have step_order, approver_type, and approver_ref"
    ELSE IF \E i \in DOMAIN stepsIn : stepsIn[i].approver_type \notin {"USER", "ROLE"}
    THEN "approver_type must be USER or ROLE"
    ELSE NullText

\* ON DELETE SET NULL of Expense.current_step_id for the deleted steps.
DetachExpenses(gone) ==
    [e \in DOMAIN expenses |->
        IF expenses[e].current_step_id \in gone
        THEN [expenses[e] EXCEPT !.current_step_id = NullStep]
        ELSE expenses[e]]

\* ON DELETE SET NULL of Approval.step_id for the deleted steps.
DetachApprovals(gone) ==
    [i \in DOMAIN approvals |->
        IF approvals[i].step_id \in gone
        THEN [approvals[i] EXCEPT !.step_id = NullStep]
        ELSE approvals[i]]

\* PUT with a name, and with steps when given is TRUE: the steps of the
\* flow are deleted and the steps of the request created under new ids.
UpdateFlow(u, f, given, stepsIn) ==
    /\ stepSeq + Len(stepsIn) <= MaxStepRows
    /\ UNCHANGED txs
    /\ IF FlowRefusal(u, f) # NullText
       THEN FlowReply("UpdateFlow", u, f, FlowRefusal(u, f), {}) /\ UNCHANGED dbvars
       ELSE IF given /\ StepsRefusal(stepsIn) # NullText
       THEN FlowReply("UpdateFlow", u, f, StepsRefusal(stepsIn), {}) /\ UNCHANGED dbvars
       ELSE /\ UNCHANGED <<flows, rules, clock>>
            /\ FlowReply("UpdateFlow", u, f, "Approval flow updated successfully", {})
            /\ IF given
               THEN LET gone == {s.id : s \in StepsOfFlow(f)}
                    IN  /\ steps' = (steps \ StepsOfFlow(f)) \cup StepRows(f, stepSeq, stepsIn)
                        /\ stepSeq' = stepSeq + Len(stepsIn)
                        /\ expenses' = DetachExpenses(gone)
                        /\ approvals' = DetachApprovals(gone)
               ELSE UNCHANGED <<steps, stepSeq, expenses, approvals>>

\* Variant of DeactivateFlow that deletes the steps of the flow with it.
DeactivateFlowWithSteps(u, f) ==
    /\ UNCHANGED txs
    /\ IF FlowRefusal(u, f) # NullText
       THEN FlowReply("DeactivateFlow", u, f, FlowRefusal(u, f), {}) /\ UNCHANGED dbvars
       ELSE /\ flows' = [flows EXCEPT ![f].is_active = FALSE]
            /\ steps' = steps \ StepsOfFlow(f)
            /\ expenses' = DetachExpenses({s.id : s \in StepsOfFlow(f)})
            /\ approvals' = DetachApprovals({s.id : s \in StepsOfFlow(f)})
            /\ FlowReply("DeactivateFlow", u, f,
                         "Approval flow deactivated successfully", {})
            /\ UNCHANGED <<rules, stepSeq, clock>>

\* DELETE: update({ data: { is_active: false } }).
DeactivateFlow(u, f) ==
    /\ UNCHANGED txs
    /\ IF FlowRefusal(u, f) # NullText
       THEN FlowReply("DeactivateFlow", u, f, FlowRefusal(u, f), {}) /\ UNCHANGED dbvars
       ELSE /\ flows' = [flows EXCEPT ![f].is_active = FALSE]
            /\ FlowReply("DeactivateFlow", u, f,
                         "Approval flow deactivated successfully", {})
            /\ UNCHANGED <<steps, rules, stepSeq, expenses, approvals, clock>>

\* GET /api/approval-flows/:id: a read; the response carries the steps of
\* the flow.
GetFlow(u, f) ==
    /\ UNCHANGED <<dbvars, txs>>
    /\ IF FlowRefusal(u, f) # NullText
       THEN FlowReply("GetFlow", u, f, FlowRefusal(u, f), {})
       ELSE FlowReply("GetFlow", u, f, NullText, {t.id : t \in StepsOfFlow(f)})

\* Variant of PendingQuery without the role branch of the OR.
PendingQueryDirectOnly(u) ==
    {i \in DOMAIN approvals :
        approvals[i].status = "PENDING" /\ approvals[i].approver_id = u}

\* The rows whereClause selects for u, before sort, skip and take.
PendingQuery(u) ==
    {i \in DOMAIN approvals :
        /\ approvals[i].status = "PENDING"
        /\ \/ approvals[i].approver_id = u
           \/ \E s \in steps : /\ s.id = approvals[i].step_id
                               /\ s.approver_type = "ROLE"
                               /\ s.approver_ref = Role[u]}

\* GET /pending: a read, the database is left as it is.
Pending(u) ==
    /\ UNCHANGED <<dbvars, txs>>
    /\ IF ~ManagerOrAdminOnly(u)
       THEN Reply("Pending", u, 0, NullStep, "Manager or Admin access required")
       ELSE response' = [op |-> "Pending", user |-> u, expense |-> 0,
                         stepId |-> NullStep, result |-> NullText,
                         rows |-> PendingQuery(u), flow |-> 0]

\* Step lists of the flow requests: none, two steps in order, two steps of
\* the same order, a step of negative order.
FlowStepLists ==
    {<<>>,
     <<StepInput(1, <<"ROLE", "MANAGER">>), StepInput(2, <<"USER", "m1">>)>>,
     <<StepInput(1, <<"ROLE", "MANAGER">>), StepInput(1, <<"USER", "m1">>)>>,
     <<StepInput(-1, <<"ROLE", "MANAGER">>), StepInput(2, <<"ROLE", "ADMIN">>)>>}

FlowAdmins == {"a1", "m1", "b1"}

FlowArgs == 1..MaxFlows

\* stepId of an escalate request: absent, or an id handed out so far.
FlowStepArgs == 0..stepSeq

FlowsCreateFlow == \E u \in FlowAdmins, sl \in FlowStepLists : CreateFlow(u, sl, <<>>)

FlowsSubmit == Submit("e1", 50)

FlowsEscalate == \E e \in ExpenseArgs, s \in FlowStepArgs : Escalate("a1", e, s)

DoUpdateFlow ==
    \E u \in FlowAdmins, f \in FlowArgs, given \in BOOLEAN, sl \in FlowStepLists :
        UpdateFlow(u, f, given, sl)

DoDeactivateFlow == \E u \in FlowAdmins, f \in FlowArgs : DeactivateFlow(u, f)

DoPending == \E u \in UserIds : Pending(u)

DoGetFlow == \E u \in FlowAdmins, f \in FlowArgs : GetFlow(u, f)

NextFlows ==
    \/ FlowsCreateFlow
    \/ FlowsSubmit
    \/ FlowsEscalate
    \/ DoApprove
    \/ DoReject
    \/ DoUpdateFlow
    \/ DoDeactivateFlow
    \/ DoPending
    \/ DoGetFlow

SpecFlows == Init /\ [][NextFlows]_vars

(***************************************************************************)
(* Vocabulary of the properties.                                           *)
(***************************************************************************)
Terminal(st) == st \in {"APPROVED", "REJECTED"}

\* The steps of the flow of s that come after s.
LaterSteps(s) == {t \in steps : t.flow_id = s.flow_id /\ t.step_order > s.step_order}

\* The steps that directly follow s: the later steps of smallest order.
SuccessorSteps(s) ==
    {t \in LaterSteps(s) : \A x \in LaterSteps(s) : t.step_order <= x.step_order}

\* The approval the last decision request of user u decided on expense e.
DecidedNow(e) ==
    {i \in DOMAIN approvals :
        approvals[i].expense_id = e /\ approvals[i].decided_at = clock /\ clock > 0}

ApproveSucceeded ==
    /\ response.op = "Approve"
    /\ response.result \in {"Expense fully approved", "Step approved successfully"}

\* u is the approver of approval a, directly or through the role of a's step.
AssignedTo(a, u) ==
    \/ a.approver_id = u
    \/ \E s \in steps : s.id = a.step_id /\ s.approver_type = "ROLE"
                        /\ s.approver_ref = Role[u]

\* An Approve of expense e by u passes every guard of the route.
ApproveAccepted(u, e) ==
    /\ Role[u] \in {"MANAGER", "ADMIN"}
    /\ e \in DOMAIN expenses
    /\ expenses[e].status = "PENDING"
    /\ \E i \in DOMAIN approvals :
          /\ approvals[i].expense_id = e
          /\ approvals[i].status = "PENDING"
          /\ approvals[i].step_id = expenses[e].current_step_id
          /\ AssignedTo(approvals[i], u)

\* Flow f has sequential steps whose approvers resolve to somebody else than
\* employee u, and no rules.
PlainFlowFor(f, u) ==
    /\ flows[f].is_active
    /\ flows[f].company_id = Company[u]
    /\ \A r \in rules : r.flow_id # f
    /\ \A s, t \in steps :
          (s.flow_id = f /\ t.flow_id = f /\ s.id # t.id) => s.step_order # t.step_order
    /\ \A s \in steps :
          s.flow_id = f =>
             IF s.approver_type = "USER" THEN s.approver_ref \in UserIds \ {u}
             ELSE \E a \in UserIds \ {u} :
                     Role[a] = s.approver_ref /\ Company[a] = Company[u]

(***************************************************************************)
(* C1: an expense submitted through the submit operation in a company      *)
(* whose active flow has N sequential steps and no rules can be approved N *)
(* times in a row by the correct approvers, ending APPROVED with a null    *)
(* currentStepId and N decided Approval records: right after the           *)
(* submission an approver of the flow's first step can give the first of   *)
(* these approvals.                                                        *)
(***************************************************************************)
C1_SubmittedExpenseCanBeApproved ==
    (/\ response.op = "Submit"
     /\ response.result = "Expense submitted successfully")
    => \A f \in DOMAIN flows :
          PlainFlowFor(f, response.user) =>
             \E s \in steps, u \in UserIds :
                /\ s.flow_id = f
                /\ \A t \in steps : t.flow_id = f => s.step_order <= t.step_order
                /\ IF s.approver_type = "USER" THEN u = s.approver_ref
                   ELSE Role[u] = s.approver_ref /\ Company[u] = Company[response.user]
                /\ ApproveAccepted(u, response.expense)

(***************************************************************************)
(* C3: a successful Reject sets the expense REJECTED with a null           *)
(* currentStepId, marks exactly the matched approval REJECTED and creates  *)
(* no Approval record, at any step and whatever the rules of the flow.     *)
(***************************************************************************)
C3_Step ==
    (response'.op = "Reject" /\ response'.result = "Expense rejected") =>
       LET e == response'.expense
           u == response'.user
       IN  /\ expenses'[e].status = "REJECTED"
           /\ expenses'[e].current_step_id = NullStep
           /\ Len(approvals') = Len(approvals)
           /\ \E i \in DOMAIN approvals :
                 /\ approvals[i].expense_id = e
                 /\ approvals[i].status = "PENDING"
                 /\ approvals[i].step_id = expenses[e].current_step_id
                 /\ AssignedTo(approvals[i], u)
                 /\ approvals'[i].status = "REJECTED"
                 /\ \A j \in DOMAIN approvals : j # i => approvals'[j] = approvals[j]

C3_RejectIsTerminal == [][C3_Step]_vars

\* A Reject succeeded at the second step of a flow that has rules.
C3_Witness ==
    /\ response.op = "Reject" /\ response.result = "Expense rejected"
    /\ \E i \in DecidedNow(response.expense), s \in steps :
          /\ s.id = approvals[i].step_id
          /\ s.step_order = 2
          /\ \E r \in rules : r.flow_id = s.flow_id

(***************************************************************************)
(* C4: APPROVED and REJECTED are absorbing.  On an expense whose status is *)
(* APPROVED or REJECTED every Approve, Reject or Escalate leaves the       *)
(* expense and the Approval records unchanged, and every such request the  *)
(* route's role middleware lets through fails with the not-pending error.  *)
(***************************************************************************)
PassesRoleCheck(op, u) ==
    IF op = "Escalate" THEN Role[u] = "ADMIN" ELSE Role[u] \in {"MANAGER", "ADMIN"}

C4_Step ==
    \A e \in DOMAIN expenses :
       (/\ Terminal(expenses[e].status)
        /\ response'.op \in {"Approve", "Reject", "Escalate"}
        /\ response'.expense = e)
       => /\ expenses' = expenses
          /\ approvals' = approvals
          /\ PassesRoleCheck(response'.op, response'.user)
                => response'.result = "Expense is not pending approval"

C5_PercentageRuleAutoApproves ==
    ApproveSucceeded =>
       \A i \in DecidedNow(response.expense), s \in steps :
          (/\ s.id = approvals[i].step_id
           /\ \E r \in rules : /\ r.flow_id = s.flow_id
                               /\ r.rule_type = "PERCENTAGE"
                               /\ expenses[response.expense].amount < r.threshold)
          => /\ expenses[response.expense].status = "APPROVED"
             /\ expenses[response.expense].current_step_id = NullStep

\* An Approve succeeded under such a rule at a step that has later steps.
C5_Witness ==
    /\ ApproveSucceeded
    /\ \E i \in DecidedNow(response.expense), s \in steps :
          /\ s.id = approvals[i].step_id
          /\ LaterSteps(s) # {}
          /\ \E r \in rules : /\ r.flow_id = s.flow_id
                              /\ r.rule_type = "PERCENTAGE"
                              /\ expenses[response.expense].amount < r.threshold

(***************************************************************************)
(* C6: when a rule auto-approves the expense on an Approve at step k, no   *)
(* Approval record of the expense exists afterwards for a step later than  *)
(* k.                                                                      *)
(***************************************************************************)
RuleAutoApproves(f, amount, u) ==
    \E r \in rules :
       /\ r.flow_id = f
       /\ \/ r.rule_type = "PERCENTAGE" /\ amount < r.threshold
          \/ r.rule_type = "SPECIFIC_APPROVER" /\ r.approver_id = u /\ r.skip_remaining

C6_NoApprovalPastAutoApprovedStep ==
    ApproveSucceeded =>
       \A i \in DecidedNow(response.expense), s \in steps :
          (/\ s.id = approvals[i].step_id
           /\ RuleAutoApproves(s.flow_id, expenses[response.expense].amount, response.user))
          => \A j \in DOMAIN approvals :
                approvals[j].expense_id = response.expense
                   => approvals[j].step_id \notin {t.id : t \in LaterSteps(s)}

(***************************************************************************)
(* C7: with a single rule, SPECIFIC_APPROVER with skipRemaining naming U,  *)
(* a successful Approve by U leaves the expense APPROVED with a null       *)
(* currentStepId; a successful Approve by another user advances normally:  *)
(* the next step becomes current, or the expense is APPROVED when the step *)
(* has no later step.                                                      *)
(***************************************************************************)
C7_SpecificApproverRule ==
    ApproveSucceeded =>
       \A i \in DecidedNow(response.expense), s \in steps, r \in rules :
          (/\ s.id = approvals[i].step_id
           /\ r.flow_id = s.flow_id
           /\ \A q \in rules : q.flow_id = s.flow_id => q = r
           /\ r.rule_type = "SPECIFIC_APPROVER"
           /\ r.skip_remaining)
          => LET exp == expenses[response.expense]
             IN  IF response.user = r.approver_id \/ LaterSteps(s) = {}
                 THEN exp.status = "APPROVED" /\ exp.current_step_id = NullStep
                 ELSE /\ exp.status = "PENDING"
                      /\ exp.current_step_id \in {t.id : t \in SuccessorSteps(s)}

\* Another user than U approved a step of the admins, which U could have
\* approved, and the expense moved to the next step.
C7_Witness ==
    /\ ApproveSucceeded
    /\ expenses[response.expense].status = "PENDING"
    /\ \E i \in DecidedNow(response.expense), s \in steps, r \in rules :
          /\ s.id = approvals[i].step_id
          /\ s.approver_type = "ROLE" /\ s.approver_ref = "ADMIN"
          /\ r.flow_id = s.flow_id
          /\ r.rule_type = "SPECIFIC_APPROVER" /\ r.skip_remaining
          /\ r.approver_id = "a1"
          /\ response.user = "a2"

(***************************************************************************)
(* C8: a successful Escalate, on a PENDING expense whose target step (the  *)
(* stepId of the request, by default the current step) has a later step,   *)
(* marks every PENDING approval of the expense at the target step REJECTED *)
(* with the escalation comment and a decision timestamp, sets currentStepId*)
(* to a step of smallest greater order, creates that step's approval (one  *)
(* PENDING approval for an approver of the step, none when its role has no *)
(* user in the company) and leaves the status PENDING.                     *)
(***************************************************************************)
EscalateSucceeded(r) ==
    r.op = "Escalate" /\ r.result = "Step escalated to next approver"

\* The users an approval of step s, for an expense of the company, may name.
ApproversOfStep(s, company) ==
    IF s.approver_type = "USER" THEN {s.approver_ref}
    ELSE {u \in UserIds : Role[u] = s.approver_ref /\ Company[u] = company}

C8_Step ==
    EscalateSucceeded(response') =>
       LET e == response'.expense
           target == IF response'.stepId # NullStep THEN response'.stepId
                     ELSE expenses[e].current_step_id
           n == Len(approvals)
       IN  /\ expenses[e].status = "PENDING"
           /\ expenses'[e].status = "PENDING"
           /\ \E ts \in steps, ns \in steps :
                 /\ ts.id = target
                 /\ ns \in SuccessorSteps(ts)
                 /\ expenses'[e].current_step_id = ns.id
                 /\ LET who == ApproversOfStep(ns, Company[expenses[e].employee_id])
                    IN  IF who = {} THEN Len(approvals') = n
                        ELSE /\ Len(approvals') = n + 1
                             /\ approvals'[n + 1].expense_id = e
                             /\ approvals'[n + 1].step_id = ns.id
                             /\ approvals'[n + 1].status = "PENDING"
                             /\ approvals'[n + 1].approver_id \in who
           /\ \A i \in DOMAIN approvals :
                 IF /\ approvals[i].expense_id = e
                    /\ approvals[i].step_id = target
                    /\ approvals[i].status = "PENDING"
                 THEN /\ approvals'[i].status = "REJECTED"
                      /\ approvals'[i].comments = "Escalated to next step"
                      /\ approvals'[i].decided_at # NullDate
                 ELSE approvals'[i] = approvals[i]

C8_EscalateAdvances == [][C8_Step]_vars

\* An Escalate without stepId succeeded on an expense that had a PENDING
\* approval at its current step: that approval is REJECTED with the
\* escalation comment, and the approval of the new current step is PENDING.
C8_Witness ==
    /\ EscalateSucceeded(response)
    /\ response.stepId = NullStep
    /\ \E i, j \in DOMAIN approvals :
          /\ approvals[i].expense_id = response.expense
          /\ approvals[i].status = "REJECTED"
          /\ approvals[i].comments = "Escalated to next step"
          /\ approvals[i].decided_at = clock
          /\ approvals[j].expense_id = response.expense
          /\ approvals[j].status = "PENDING"
          /\ approvals[j].step_id = expenses[response.expense].current_step_id

(***************************************************************************)
(* C9: after an Escalate reported 'No next step available for escalation'  *)
(* at the current, last step of the expense, with another ADMIN than the   *)
(* escalating one in the expense's company, a PENDING approval assigned to *)
(* such an admin with the fallback comment exists at that step.            *)
(***************************************************************************)
NoNextStepReported(r) ==
    r.op = "Escalate" /\ r.result = "No next step available for escalation"

OtherAdmins(e, u) ==
    {a \in UserIds : Role[a] = "ADMIN" /\ a # u
                     /\ Company[a] = Company[expenses[e].employee_id]}

C9_FallbackApprovalPersists ==
    (/\ NoNextStepReported(response)
     /\ response.stepId = NullStep
     /\ OtherAdmins(response.expense, response.user) # {})
    => \E i \in DOMAIN approvals :
          /\ approvals[i].expense_id = response.expense
          /\ approvals[i].step_id = expenses[response.expense].current_step_id
          /\ approvals[i].status = "PENDING"
          /\ approvals[i].comments = "Escalated by admin"
          /\ approvals[i].approver_id \in OtherAdmins(response.expense, response.user)

(***************************************************************************)
(* C10: an Escalate by an admin on a PENDING expense whose target step has *)
(* no later step, when the expense's company has no other ADMIN, reports   *)
(* the no-next-step failure and leaves the expense and the Approval        *)
(* records unchanged.                                                      *)
(***************************************************************************)
C10_Step ==
    \A e \in DOMAIN expenses, ts \in steps :
       (/\ response'.op = "Escalate"
        /\ response'.expense = e
        /\ Role[response'.user] = "ADMIN"
        /\ expenses[e].status = "PENDING"
        /\ ts.id = (IF response'.stepId # NullStep THEN response'.stepId
                    ELSE expenses[e].current_step_id)
        /\ LaterSteps(ts) = {}
        /\ OtherAdmins(e, response'.user) = {})
       => /\ NoNextStepReported(response')
          /\ expenses' = expenses
          /\ approvals' = approvals

C10_LastStepWithoutOtherAdmin == [][C10_Step]_vars

\* The only admin of a company escalated, without stepId, an expense of the
\* company that is at the last step of its flow.
C10_Witness ==
    /\ NoNextStepReported(response)
    /\ response.stepId = NullStep
    /\ OtherAdmins(response.expense, response.user) = {}
    /\ expenses[response.expense].status = "PENDING"
    /\ \E ts \in steps : /\ ts.id = expenses[response.expense].current_step_id
                         /\ LaterSteps(ts) = {}
                         /\ \E t \in steps : ts \in LaterSteps(t)

(***************************************************************************)
(* C2: of concurrent decisions on an expense at most one commits: an       *)
(* Approve or a Reject commits its transition only on the expense row and  *)
(* the pending approvals it read; a decision whose reads another request's *)
(* commit has overtaken fails and changes nothing.  So two Approve of the  *)
(* same approver do not both advance the step, and an Approve and a Reject *)
(* do not both commit.                                                     *)
(***************************************************************************)
DecisionCommitted(r) ==
    /\ r.op \in {"Approve", "Reject"}
    /\ r.result \in {"Expense fully approved", "Step approved successfully",
                     "Expense rejected"}

\* This step commits the transition of the decision txs[k].
Commits(k) ==
    /\ txs' = RemoveAt(txs, k)
    /\ DecisionCommitted(response')
    /\ response'.op = txs[k].op
    /\ response'.user = txs[k].user
    /\ response'.expense = txs[k].expense
    /\ expenses' # expenses \/ approvals' # approvals

C2_Step ==
    \A k \in DOMAIN txs :
       Commits(k) => /\ txs[k].seen = expenses[txs[k].expense]
                     /\ txs[k].pending = PendingApprovals(txs[k].expense)

C2_OneTransitionCommits == [][C2_Step]_vars

(***************************************************************************)
(* C11: an Approve or Reject that reaches its handler fails with the       *)
(* not-found error when the expense is absent, else with the not-pending   *)
(* error when its status is not PENDING, else with the not-authorized      *)
(* error when the user has no matching PENDING approval at the current     *)
(* step; and every Approve, Reject or Escalate that fails leaves the       *)
(* expenses and the Approval records exactly as they were.                 *)
(***************************************************************************)
NotAuthorized(op) ==
    IF op = "Approve" THEN "You are not authorized to approve this step"
    ELSE "You are not authorized to reject this step"

\* User u has a PENDING approval of expense e at its current step.
HasPendingApproval(u, e) ==
    \E i \in DOMAIN approvals :
       /\ approvals[i].expense_id = e
       /\ approvals[i].status = "PENDING"
       /\ approvals[i].step_id = expenses[e].current_step_id
       /\ AssignedTo(approvals[i], u)

OperationSucceeded(r) ==
    r.result \in {"Expense fully approved", "Step approved successfully",
                  "Expense rejected", "Step escalated to next approver"}

C11_Step ==
    /\ (/\ response'.op \in {"Approve", "Reject"}
        /\ PassesRoleCheck(response'.op, response'.user))
       => LET e == response'.expense
              u == response'.user
          IN  IF e \notin DOMAIN expenses
              THEN response'.result = "Expense not found"
              ELSE IF expenses[e].status # "PENDING"
              THEN response'.result = "Expense is not pending approval"
              ELSE IF ~HasPendingApproval(u, e)
              THEN response'.result = NotAuthorized(response'.op)
              ELSE TRUE
    /\ (/\ response'.op \in {"Approve", "Reject", "Escalate"}
        /\ ~OperationSucceeded(response'))
       => expenses' = expenses /\ approvals' = approvals

C12_AssignedApproverIsAccepted ==
    \A e \in DOMAIN expenses, u \in UserIds :
       (/\ expenses[e].status = "PENDING"
        /\ u # expenses[e].employee_id
        /\ HasPendingApproval(u, e))
          => ApproveRefusal(u, e) = NullText

(***************************************************************************)
(* C13: a successful Approve by U changes exactly one Approval record that *)
(* existed before, the matched one: PENDING, at the current step, assigned *)
(* to U directly or through the step's role, it becomes APPROVED with a    *)
(* decision timestamp and approver U.  It creates at most one approval,    *)
(* PENDING and at a step that directly follows, and leaves every other     *)
(* Approval record unchanged.                                              *)
(***************************************************************************)
C13_Step ==
    (/\ response'.op = "Approve"
     /\ response'.result \in {"Expense fully approved", "Step approved successfully"})
    => LET e == response'.expense
           u == response'.user
           n == Len(approvals)
       IN  /\ \E i \in DOMAIN approvals :
                 /\ approvals[i].expense_id = e
                 /\ approvals[i].status = "PENDING"
                 /\ approvals[i].step_id = expenses[e].current_step_id
                 /\ AssignedTo(approvals[i], u)
                 /\ approvals'[i].status = "APPROVED"
                 /\ approvals'[i].decided_at # NullDate
                 /\ approvals'[i].approver_id = u
                 /\ approvals'[i].expense_id = e
                 /\ approvals'[i].step_id = approvals[i].step_id
                 /\ \A j \in DOMAIN approvals : j # i => approvals'[j] = approvals[j]
           /\ Len(approvals') \in {n, n + 1}
           /\ Len(approvals') = n + 1
                 => /\ approvals'[n + 1].expense_id = e
                    /\ approvals'[n + 1].status = "PENDING"
                    /\ \E s \in steps, t \in steps :
                          /\ s.id = expenses[e].current_step_id
                          /\ t \in SuccessorSteps(s)
                          /\ approvals'[n + 1].step_id = t.id

C13_ApproveChangesOneApproval == [][C13_Step]_vars

\* a2 approved an approval of a ROLE ADMIN step: the decided approval names
\* a2, and an approval of the next step is PENDING.
C13_Witness ==
    /\ ApproveSucceeded
    /\ response.user = "a2"
    /\ \E i \in DecidedNow(response.expense), j \in DOMAIN approvals, s \in steps :
          /\ approvals[i].approver_id = "a2"
          /\ approvals[i].status = "APPROVED"
          /\ s.id = approvals[i].step_id
          /\ s.approver_type = "ROLE"
          /\ approvals[j].status = "PENDING"
          /\ approvals[j].step_id \in {t.id : t \in SuccessorSteps(s)}

(***************************************************************************)
(* C14: whenever a request changes the currentStepId of an expense from a  *)
(* step s to another step t, t is a step of the flow of s with the         *)
(* smallest stepOrder greater than that of s: the current step order never *)
(* decreases and never skips a step.                                       *)
(***************************************************************************)
C14_Step ==
    \A e \in DOMAIN expenses :
       LET s == expenses[e].current_step_id
           t == expenses'[e].current_step_id
       IN  (s # NullStep /\ t # NullStep /\ t # s)
              => \E ss \in steps, tt \in steps :
                    ss.id = s /\ tt.id = t /\ tt \in SuccessorSteps(ss)

C14_StepOrderOnlyAdvances == [][C14_Step]_vars

FirstSteps(f) ==
    {s \in steps : /\ s.flow_id = f
                   /\ \A t \in steps : t.flow_id = f => s.step_order <= t.step_order}

C16_SubmitEntersTheFlow ==
    (/\ response.op = "Submit"
     /\ response.result = "Expense submitted successfully")
    => \A f \in DOMAIN flows :
          (/\ flows[f].is_active
           /\ flows[f].company_id = Company[response.user]
           /\ \E s \in steps :
                 /\ s.flow_id = f
                 /\ ApproversOfStep(s, Company[response.user]) \cap UserIds # {})
          => /\ expenses[response.expense].current_step_id \in {s.id : s \in FirstSteps(f)}
             /\ \E i \in DOMAIN approvals :
                   /\ approvals[i].expense_id = response.expense
                   /\ approvals[i].status = "PENDING"

(***************************************************************************)
(* C17: a submit whose amount is not strictly greater than 0 is rejected   *)
(* and creates no expense: no expense has an amount of 0 or less.          *)
(***************************************************************************)
C17_AmountIsPositive ==
    \A e \in DOMAIN expenses : expenses[e].amount > 0

(***************************************************************************)
(* C18: an employee is never their own approver: no Approval record of an  *)
(* expense names the employee who submitted the expense as approver,       *)
(* whether assigned at creation or set by the decision.                    *)
(***************************************************************************)
C18_NoSelfApproval ==
    \A i \in DOMAIN approvals :
       approvals[i].approver_id # expenses[approvals[i].expense_id].employee_id

(***************************************************************************)
(* C19: in every reachable state an expense has at most one PENDING        *)
(* Approval for the same step and approver.                                *)
(***************************************************************************)
C19_OnePendingApprovalPerStep ==
    \A i, j \in DOMAIN approvals :
       (/\ i # j
        /\ approvals[i].status = "PENDING" /\ approvals[j].status = "PENDING"
        /\ approvals[i].expense_id = approvals[j].expense_id
        /\ approvals[i].step_id = approvals[j].step_id)
       => approvals[i].approver_id # approvals[j].approver_id

(***************************************************************************)
(* C20: the decision of an Approval is recorded exactly once: after every  *)
(* request decidedAt is set iff the status is APPROVED or REJECTED, and no *)
(* request changes the status, approver or decidedAt of an Approval that   *)
(* is decided.                                                             *)
(***************************************************************************)
C20_Step ==
    /\ \A i \in DOMAIN approvals' :
          (approvals'[i].decided_at # NullDate) <=> Terminal(approvals'[i].status)
    /\ \A i \in DOMAIN approvals :
          Terminal(approvals[i].status)
             => /\ i \in DOMAIN approvals'
                /\ approvals'[i].status = approvals[i].status
                /\ approvals'[i].approver_id = approvals[i].approver_id
                /\ approvals'[i].decided_at = approvals[i].decided_at

C20_DecisionRecordedOnce == [][C20_Step]_vars

\* An Escalate with an explicit stepId succeeded on a target step that has a
\* decided approval of the expense, decided by an earlier request.
C20_Witness ==
    /\ EscalateSucceeded(response)
    /\ response.stepId # NullStep
    /\ \E i \in DOMAIN approvals :
          /\ approvals[i].expense_id = response.expense
          /\ approvals[i].step_id = response.stepId
          /\ approvals[i].status = "APPROVED"
          /\ approvals[i].decided_at < clock

(***************************************************************************)
(* C21: Approve, Reject and Escalate never modify a flow definition: the   *)
(* flows, their is_active flags, their steps and their rules are the same  *)
(* after every decision request, accepted or refused.                      *)
(***************************************************************************)
DecisionOps == {"Approve", "Reject", "Escalate"}

C21_Step ==
    response'.op \in DecisionOps => UNCHANGED <<flows, steps, rules>>

C21_DecisionsLeaveFlowsAlone == [][C21_Step]_vars

\* A Reject went through on an expense in progress on a flow that is active.
C21_Witness ==
    /\ response.op = "Reject"
    /\ response.result = "Expense rejected"
    /\ \E f \in DOMAIN flows : flows[f].is_active /\ StepsOfFlow(f) # {}

(***************************************************************************)
(* C22: editing a workflow only affects new expenses: a flow update that   *)
(* supplies a list of steps leaves the current step of every expense in    *)
(* progress and the step of every approval as they were.                   *)
(***************************************************************************)
FlowUpdated(r) ==
    r.op = "UpdateFlow" /\ r.result = "Approval flow updated successfully"

C22_Step ==
    FlowUpdated(response')
       => /\ \A e \in DOMAIN expenses :
                expenses'[e].current_step_id = expenses[e].current_step_id
          /\ \A i \in DOMAIN approvals :
                approvals'[i].step_id = approvals[i].step_id

C22_FlowUpdateKeepsExpensesInPlace == [][C22_Step]_vars

(***************************************************************************)
(* C23: deactivating a flow is a soft delete: the request only clears      *)
(* is_active, it removes no step or rule and changes no expense or         *)
(* approval; and an expense in progress on a deactivated flow is still     *)
(* approved, rejected and escalated as on an active one.                   *)
(***************************************************************************)
\* Expense e waits at a step of a flow that has been deactivated.
OnDeactivatedFlow(e) ==
    /\ e \in DOMAIN expenses
    /\ expenses[e].status = "PENDING"
    /\ \E s \in steps : /\ s.id = expenses[e].current_step_id
                        /\ ~flows[s.flow_id].is_active

RejectAccepted(u, e) == ApproveAccepted(u, e)

\* The ids of the steps of the deactivated flows.
DeactivatedSteps == {s.id : s \in {t \in steps : ~flows[t.flow_id].is_active}}

\* The step the escalate request r named, or else the current step of its
\* expense before the request.
EscalatedStep(r) ==
    IF r.stepId # NullStep THEN r.stepId ELSE expenses[r.expense].current_step_id

C23_Step ==
    /\ response'.op = "DeactivateFlow"
          => /\ UNCHANGED <<steps, rules, expenses, approvals>>
             /\ DOMAIN flows' = DOMAIN flows
             /\ \A f \in DOMAIN flows :
                   /\ flows'[f].company_id = flows[f].company_id
                   /\ flows'[f].is_active => flows[f].is_active
             /\ response'.result = "Approval flow deactivated successfully"
                   => ~flows'[response'.flow].is_active
    /\ (/\ response'.op = "Approve"
        /\ OnDeactivatedFlow(response'.expense)
        /\ ApproveAccepted(response'.user, response'.expense))
          => response'.result \in {"Expense fully approved", "Step approved successfully"}
    /\ (/\ response'.op = "Reject"
        /\ OnDeactivatedFlow(response'.expense)
        /\ RejectAccepted(response'.user, response'.expense))
          => /\ response'.result = "Expense rejected"
             /\ expenses'[response'.expense].status = "REJECTED"
    /\ (/\ response'.op = "Escalate"
        /\ Role[response'.user] = "ADMIN"
        /\ response'.expense \in DOMAIN expenses
        /\ expenses[response'.expense].status = "PENDING"
        /\ EscalatedStep(response') \in DeactivatedSteps)
          => LET cur == CHOOSE s \in steps : s.id = EscalatedStep(response')
             IN  IF SuccessorSteps(cur) # {}
                 THEN /\ EscalateSucceeded(response')
                      /\ \E n \in SuccessorSteps(cur) :
                            expenses'[response'.expense].current_step_id = n.id
                 ELSE NoNextStepReported(response')

C23_DeactivationIsSoft == [][C23_Step]_vars

\* An Approve went through although every flow had been deactivated.
C23_Witness ==
    /\ ApproveSucceeded
    /\ flows # <<>>
    /\ \A f \in DOMAIN flows : ~flows[f].is_active

(***************************************************************************)
(* C24: when an Approve or Escalate advances an expense to a ROLE step of  *)
(* its company's flow and no user of the company has that role, the        *)
(* request does not answer with the ordinary success outcome.              *)
(***************************************************************************)
AdvanceReported(r) ==
    \/ r.op = "Approve" /\ r.result = "Step approved successfully"
    \/ r.op = "Escalate" /\ r.result = "Step escalated to next approver"

\* The current step of e belongs to a flow of e's company, is a ROLE step,
\* and nobody in the company has the role.
AtStepWithoutApprovers(e) ==
    \E s \in steps :
        /\ s.id = expenses[e].current_step_id
        /\ flows[s.flow_id].company_id = Company[expenses[e].employee_id]
        /\ s.approver_type = "ROLE"
        /\ ApproversOfStep(s, Company[expenses[e].employee_id]) = {}

C24_NoApproversIsReported ==
    AdvanceReported(response) => ~AtStepWithoutApprovers(response.expense)

(***************************************************************************)
(* C25: when an Approve or Escalate would advance to a USER step whose     *)
(* user does not exist, the whole request aborts: no approval is decided   *)
(* or created, and the status and current step of the expense stay as      *)
(* they were.                                                              *)
(***************************************************************************)
\* The steps request r advances to: the successors of the step it leaves.
StepsAheadOf(r) ==
    LET from == IF r.op = "Escalate" THEN EscalatedStep(r)
                ELSE expenses[r.expense].current_step_id
    IN  UNION {SuccessorSteps(s) : s \in {t \in steps : t.id = from}}

UnresolvedUser(s) == s.approver_type = "USER" /\ s.approver_ref \notin UserIds

\* Request r passes the guards of its route in the state before it.
PassesGuards(r) ==
    /\ r.expense \in DOMAIN expenses
    /\ expenses[r.expense].status = "PENDING"
    /\ \/ r.op = "Approve" /\ ApproveAccepted(r.user, r.expense)
       \/ r.op = "Escalate" /\ Role[r.user] = "ADMIN"

C25_Step ==
    (/\ response'.op \in {"Approve", "Escalate"}
     /\ PassesGuards(response')
     /\ StepsAheadOf(response') # {}
     /\ \A s \in StepsAheadOf(response') : UnresolvedUser(s))
       => /\ ~OperationSucceeded(response')
          /\ UNCHANGED <<expenses, approvals>>

C25_UnresolvedUserAborts == [][C25_Step]_vars

\* An Approve by an assigned approver was refused because the user of the
\* next step does not exist, and the approval is still PENDING.
C25_Witness ==
    /\ response.op = "Approve"
    /\ response.result = "Record to connect not found"
    /\ \E i \in PendingApprovals(response.expense) :
          /\ approvals[i].step_id = expenses[response.expense].current_step_id
          /\ AssignedTo(approvals[i], response.user)

(***************************************************************************)
(* C26: when an expense advances to a ROLE step, a PENDING approval        *)
(* exists at that step for every user of the expense's company whose role  *)
(* is the one the step names.                                              *)
(***************************************************************************)
C26_RoleStepCoversEveryUser ==
    AdvanceReported(response)
       => LET e == response.expense
          IN  \A s \in steps :
                 (s.id = expenses[e].current_step_id /\ s.approver_type = "ROLE")
                    => \A u \in ApproversOfStep(s, Company[expenses[e].employee_id]) :
                          \E i \in PendingApprovals(e) :
                             /\ approvals[i].step_id = s.id
                             /\ approvals[i].approver_id = u

(***************************************************************************)
(* C29: HYBRID rules are inert: an accepted Approve on a flow that has a   *)
(* HYBRID rule ends in the status, current step and approval records that  *)
(* the steps and the other rules of the flow give, as if the HYBRID rules  *)
(* were not there.                                                         *)
(***************************************************************************)
HasHybridRule(f) == \E r \in rules : r.flow_id = f /\ r.rule_type = "HYBRID"

\* The rules of flow f other than HYBRID auto-approve amount decided by u.
OtherRulesAutoApprove(f, amount, u) ==
    \E r \in rules :
       /\ r.flow_id = f
       /\ r.rule_type # "HYBRID"
       /\ \/ r.rule_type = "PERCENTAGE" /\ amount < r.threshold
          \/ r.rule_type = "SPECIFIC_APPROVER" /\ r.approver_id = u /\ r.skip_remaining

C29_Step ==
    (/\ response'.op = "Approve"
     /\ response'.result \in {"Expense fully approved", "Step approved successfully"})
       => LET e == response'.expense
              u == response'.user
          IN  \A cur \in steps :
                 (cur.id = expenses[e].current_step_id /\ HasHybridRule(cur.flow_id))
                    => /\ IF \/ SuccessorSteps(cur) = {}
                             \/ OtherRulesAutoApprove(cur.flow_id, expenses[e].amount, u)
                          THEN /\ expenses'[e].status = "APPROVED"
                               /\ expenses'[e].current_step_id = NullStep
                               /\ response'.result = "Expense fully approved"
                          ELSE /\ expenses'[e].status = "PENDING"
                               /\ \E n \in SuccessorSteps(cur) :
                                     expenses'[e].current_step_id = n.id
                               /\ response'.result = "Step approved successfully"
                       \* the approval records: one decided, and what the next
                       \* step materializes
                       /\ Len(approvals') <= Len(approvals) + 1
                       /\ \A i \in DOMAIN approvals' :
                             i \notin DOMAIN approvals
                                => /\ approvals'[i].status = "PENDING"
                                   /\ \E n \in SuccessorSteps(cur) :
                                         approvals'[i].step_id = n.id
                       /\ Cardinality({i \in DOMAIN approvals :
                                          approvals'[i] # approvals[i]}) = 1

C29_HybridRulesAreInert == [][C29_Step]_vars

\* An Approve moved an expense to the next step of a flow with a HYBRID rule.
C29_Witness ==
    /\ response.op = "Approve"
    /\ response.result = "Step approved successfully"
    /\ \E s \in steps : /\ s.id = expenses[response.expense].current_step_id
                        /\ HasHybridRule(s.flow_id)

(***************************************************************************)
(* C27: Reject has the preconditions of Approve: in one and the same       *)
(* state, a user whose Approve of an expense is refused does not get a     *)
(* Reject of that expense accepted, and a user whose Reject is refused     *)
(* does not get an Approve accepted.  A refused request leaves the         *)
(* database as it was, so the request that follows it meets the same       *)
(* state.                                                                  *)
(***************************************************************************)
Refused(r, op) == r.op = op /\ ~OperationSucceeded(r)

Accepted(r, op) == r.op = op /\ OperationSucceeded(r)

SameCall(r, q) == r.user = q.user /\ r.expense = q.expense

C27_Step ==
    /\ (Refused(response, "Approve") /\ SameCall(response, response'))
          => ~Accepted(response', "Reject")
    /\ (Refused(response, "Reject") /\ SameCall(response, response'))
          => ~Accepted(response', "Approve")

C27_RejectAcceptedIffApproveAccepted == [][C27_Step]_vars

(***************************************************************************)
(* C28: every stored step has a positive step_order, and no two steps of   *)
(* one flow have the same step_order.                                      *)
(***************************************************************************)
C28_StepOrdersPositiveAndUnique ==
    /\ \A s \in steps : s.step_order > 0
    /\ \A s, t \in steps :
          (s.flow_id = t.flow_id /\ s.step_order = t.step_order) => s.id = t.id

(***************************************************************************)
(* C30: the pending list of a manager or admin U holds exactly the PENDING *)
(* approvals assigned to U directly or through a ROLE step that names U's  *)
(* role; so it holds every approval that Approve or Reject would match     *)
(* for U on any expense.                                                   *)
(***************************************************************************)
PendingListed(r) == r.op = "Pending" /\ r.result = NullText

C31_DecisionsStayInTheCompany ==
    (response.op \in DecisionOps /\ OperationSucceeded(response))
       => Company[response.user] = Company[expenses[response.expense].employee_id]

C33_ResolvedExpenseHasNoPendingApproval ==
    \A e \in DOMAIN expenses :
       Terminal(expenses[e].status) => PendingApprovals(e) = {}

(***************************************************************************)
(* C34: every PENDING approval of a PENDING expense is at the current step *)
(* of the expense: no Approve or Escalate leaves a PENDING approval behind *)
(* at another step.                                                        *)
(***************************************************************************)
C34_PendingApprovalsAtCurrentStep ==
    \A e \in DOMAIN expenses :
       expenses[e].status = "PENDING"
          => \A i \in PendingApprovals(e) :
                approvals[i].step_id = expenses[e].current_step_id

(***************************************************************************)
(* C35: every flow has at least one step at all times.                     *)
(***************************************************************************)
C35_FlowHasAStep ==
    \A f \in DOMAIN flows : \E s \in steps : s.flow_id = f

(***************************************************************************)
(* C36: one flow is read, updated or deactivated only by an admin of the   *)
(* company that owns it.  A non-admin is refused with 'Admin access        *)
(* required'; an admin who addresses a flow of another company is refused  *)
(* with 'Access denied'; a refused request returns nothing and changes no  *)
(* flow, step or rule; and an accepted request returns or changes only a   *)
(* flow of the caller's company.                                           *)
(***************************************************************************)
FlowOps == {"GetFlow", "UpdateFlow", "DeactivateFlow"}

FlowRequestAccepted(r) ==
    \/ r.op = "GetFlow" /\ r.result = NullText
    \/ r.op = "UpdateFlow" /\ r.result = "Approval flow updated successfully"
    \/ r.op = "DeactivateFlow" /\ r.result = "Approval flow deactivated successfully"

\* The flows of the companies other than the company of u.
ForeignFlows(u) == {f \in DOMAIN flows : flows[f].company_id # Company[u]}

\* The rows of flow f in the three tables.
FlowDefinition(f) ==
    <<flows[f], {s \in steps : s.flow_id = f}, {r \in rules : r.flow_id = f}>>

C36_Step ==
    response'.op \in FlowOps
       => LET u == response'.user
          IN  /\ Role[u] # "ADMIN" => response'.result = "Admin access required"
              /\ (Role[u] = "ADMIN" /\ response'.flow \in ForeignFlows(u))
                    => response'.result = "Access denied"
              /\ ~FlowRequestAccepted(response')
                    => /\ UNCHANGED <<flows, steps, rules>>
                       /\ response'.rows = {}
              /\ DOMAIN flows' = DOMAIN flows
              /\ \A f \in ForeignFlows(u) :
                    /\ FlowDefinition(f)' = FlowDefinition(f)
                    /\ \A s \in steps : s.flow_id = f => s.id \notin response'.rows

C36_FlowsBelongToTheirCompany == [][C36_Step]_vars

\* An admin of another company asked for the steps of a flow in progress
\* and was refused.
C36_Witness ==
    /\ response.op = "GetFlow"
    /\ response.result = "Access denied"
    /\ Role[response.user] = "ADMIN"
    /\ steps # {}

====
